---- MODULE Spec2Model ----
(***************************************************************************)
(* Model of the data-platform repository's synthetic data generators.      *)
(*                                                                         *)
(*   scripts/generate_sample_data.py  generate_user_data,                  *)
(*                                    generate_event_data,                 *)
(*                                    generate_session_data, main          *)
(*   simple_data_generator.py         generate_sample_data                 *)
(*   scripts/trial_data_ingestion.py  TrialDataIngestion.ingest_sample_data*)
(*                                                                         *)
(* A datetime is an integer number of ticks since an epoch; a timedelta is *)
(* a number of ticks.  ISO strings are records of a calendar date and a    *)
(* time of day.  random.* and uuid4 draws are nondeterministic choices.    *)
(* Record fields that no operation reads back (email, names, country,      *)
(* app_version, device_type, platform, event_id, the events' created_at)   *)
(* are left out of the records.                                            *)
(***************************************************************************)
EXTENDS Integers, Sequences, FiniteSets, TLC

VARIABLES
    pc,                       \* position of the running program
    clock,                    \* the wall clock read by datetime.now()
    NUM_USERS,                \* configuration (module level of the script)
    NUM_DAYS,
    EVENTS_PER_USER_PER_DAY,  \* <<min, max>>
    users,                    \* list of user records
    start_date,               \* generate_event_data: now - NUM_DAYS days
    ui,                       \* generate_event_data: index of `user` in users
    day_offset,               \* generate_event_data: loop variable
    num_events,               \* generate_event_data: events drawn for the day
    event_num,                \* generate_event_data: inner loop variable
    session_id,               \* generate_event_data: the day's session id
    session_start,            \* generate_event_data: the day's session start
    events,                   \* list of event records
    fi,                       \* generate_session_data: index of `event`
    sessions,                 \* generate_session_data: dict, in insertion order
    files,                    \* main: the output files written so far
    task_state,               \* DAG run: the state of each task instance
    try_number,               \* DAG run: the tries each task instance has made
    started,                  \* DAG run: the tasks in the order of their first start
    report,                   \* monitor: report['checks'], in insertion order
    alerts,                   \* monitor: the calls of send_alert
    check_index,              \* monitor main: position of the loop over the checks
    issues_found              \* monitor main: issues_found

vars == <<pc, clock, NUM_USERS, NUM_DAYS, EVENTS_PER_USER_PER_DAY, users,
          start_date, ui, day_offset, num_events, event_num, session_id,
          session_start, events, fi, sessions, files, task_state, try_number, started,
          report, alerts, check_index, issues_found>>

genvars == <<NUM_USERS, NUM_DAYS, EVENTS_PER_USER_PER_DAY, start_date, ui,
             day_offset, num_events, event_num, session_id, session_start>>

\* the variables of a DAG run and those of the data quality monitor
dagvars == <<task_state, try_number, started>>
monvars == <<report, alerts, check_index, issues_found>>

\* no DAG run and no monitor run
DagIdle == task_state = <<>> /\ try_number = <<>> /\ started = <<>>
MonitorIdle == report = <<>> /\ alerts = <<>> /\ check_index = 0 /\ issues_found = FALSE

-----------------------------------------------------------------------------
(* Bounds of the model *)

\* resolution of the clock: ticks in a second (Python: 1000000 microseconds)
TicksPerSecond == 2
\* uuid4().hex[:8] takes one of 16^8 values; the model draws from this many
HexIdSpace == 2
\* largest NUM_USERS, NUM_DAYS and EVENTS_PER_USER_PER_DAY max explored
MaxUsers == 2
MaxDays == 2
MaxEventsPerDay == 2
\* largest NUM_USERS * NUM_DAYS * max events of an explored configuration
MaxTotalEvents == 2
\* random.randint(1, 365) days of user age: the model draws 1..MaxCreatedDays
MaxCreatedDays == 2
\* the clock advances by at most this many ticks during one run
MaxClockAdvance == 1
\* simple_data_generator: num_users (100), num_events (1000) and the number of
\* session ids (50) explored
SimpleNumUsers == 2
SimpleNumEvents == 2
SimpleSessionIds == 2
\* trial_data_ingestion: the number of users (100) and num_events (1000) explored
TrialNumUsers == 2
TrialNumEvents == 2
\* generate_session_data on arbitrary input: length and time range of the input
MaxFoldEvents == 3
MaxFoldTime == 3

-----------------------------------------------------------------------------
(* datetime, timedelta, isoformat *)

TicksPerMinute == 60 * TicksPerSecond
TicksPerHour == 60 * TicksPerMinute
TicksPerDay == 24 * TicksPerHour

\* timedelta(days=d, hours=h, minutes=m)
timedelta(d, h, m) == d * TicksPerDay + h * TicksPerHour + m * TicksPerMinute

\* datetime.date()
date(t) == t \div TicksPerDay

\* datetime.isoformat() + "Z"
isoformat(t) == [date |-> t \div TicksPerDay, time |-> t % TicksPerDay, tz |-> "Z"]

\* datetime.fromisoformat(s.replace("Z", ""))
fromisoformat(s) == s.date * TicksPerDay + s.time

\* int(x / y) for a timedelta x: truncation towards zero
IntDiv(x, y) == IF x >= 0 THEN x \div y ELSE -((-x) \div y)

\* Optional values: None, or a one-element tuple
None == <<>>
Some(x) == <<x>>

-----------------------------------------------------------------------------
(* identifiers *)

HexValues == 0 .. (HexIdSpace - 1)

\* f"user_{uuid.uuid4().hex[:8]}"
generate_user_id == {<<"user", h>> : h \in HexValues}

\* f"sess_{uuid.uuid4().hex[:8]}"
generate_session_id == {<<"sess", h>> : h \in HexValues}

EVENT_TYPES ==
    {"purchase", "page_view", "signup", "login", "logout", "click", "scroll", "search"}

-----------------------------------------------------------------------------
(* generate_session_data: the fold of the events into the sessions dict *)

\* the position of session id `sid` in the dict, 0 when `sid not in sessions`
SessionIndex(ss, sid) ==
    IF \E i \in DOMAIN ss : ss[i].session_id = sid
    THEN CHOOSE i \in DOMAIN ss : ss[i].session_id = sid
    ELSE 0

\* the record created for a session id seen for the first time
NewSession(event, event_time) ==
    [session_id |-> event.session_id,
     user_id |-> event.user_id,
     started_at |-> isoformat(event_time),
     ended_at |-> None,
     duration_seconds |-> None,
     page_views |-> 0,
     events_count |-> 0]

\* mutant of CountEvent: every event counted as a page view
CountEventAsPageView(s, event) ==
    [s EXCEPT !.events_count = @ + 1, !.page_views = @ + 1]

\* events_count += 1; page_views += 1 for a page_view
CountEvent(s, event) ==
    [s EXCEPT !.events_count = @ + 1,
              !.page_views = IF event.event_type = "page_view" THEN @ + 1 ELSE @]

\* mutant of UpdateEndTime: the comparison reversed
UpdateEndTimeEarlier(s, event_time) ==
    IF s.ended_at = None \/ event_time < fromisoformat(s.ended_at[1])
    THEN [s EXCEPT !.ended_at = Some(isoformat(event_time))]
    ELSE s

\* mutant of UpdateEndTime: the last event's time, without the comparison
UpdateEndTimeLast(s, event_time) ==
    [s EXCEPT !.ended_at = Some(isoformat(event_time))]

\* "Update end time"
UpdateEndTime(s, event_time) ==
    IF s.ended_at = None \/ event_time > fromisoformat(s.ended_at[1])
    THEN [s EXCEPT !.ended_at = Some(isoformat(event_time))]
    ELSE s

\* mutant of SessionsPut: a record appended for every event
SessionsPutAppend(ss, s) == Append(ss, s)

\* sessions[sid] = s: a new key goes to the end, an old key keeps its place
SessionsPut(ss, s) ==
    IF SessionIndex(ss, s.session_id) = 0
    THEN Append(ss, s)
    ELSE [ss EXCEPT ![SessionIndex(ss, s.session_id)] = s]

\* one iteration of `for event in events`
FoldStep(ss, event) ==
    LET event_time == fromisoformat(event.event_timestamp)
        i == SessionIndex(ss, event.session_id)
        s0 == IF i = 0 THEN NewSession(event, event_time) ELSE ss[i]
    IN  SessionsPut(ss, UpdateEndTime(CountEvent(s0, event), event_time))

\* mutant of CalculateDuration: the span rounded up to the next second
CalculateDurationRoundedUp(s) ==
    IF s.ended_at # None
    THEN [s EXCEPT !.duration_seconds =
            Some(IntDiv(fromisoformat(s.ended_at[1]) - fromisoformat(s.started_at)
                            + TicksPerSecond - 1,
                        TicksPerSecond))]
    ELSE s

\* "Calculate durations", for one session
CalculateDuration(s) ==
    IF s.ended_at # None
    THEN [s EXCEPT !.duration_seconds =
            Some(IntDiv(fromisoformat(s.ended_at[1]) - fromisoformat(s.started_at),
                        TicksPerSecond))]
    ELSE s

RECURSIVE FoldAll(_, _)
FoldAll(ss, evs) ==
    IF evs = <<>> THEN ss ELSE FoldAll(FoldStep(ss, Head(evs)), Tail(evs))

\* the whole function, as a function of its argument
generate_session_data(evs) ==
    LET ss == FoldAll(<<>>, evs)
    IN  [i \in DOMAIN ss |-> CalculateDuration(ss[i])]

FoldEvent ==
    /\ pc = "fold"
    /\ fi <= Len(events)
    /\ sessions' = FoldStep(sessions, events[fi])
    /\ fi' = fi + 1
    /\ UNCHANGED <<pc, clock, users, events, genvars, files, dagvars, monvars>>

CalculateDurations ==
    /\ pc = "fold"
    /\ fi > Len(events)
    /\ sessions' = [i \in DOMAIN sessions |-> CalculateDuration(sessions[i])]
    /\ pc' = "done"
    /\ UNCHANGED <<clock, users, events, fi, genvars, files, dagvars, monvars>>

-----------------------------------------------------------------------------
(* generate_session_data applied to an arbitrary list of events *)

\* the input's event types (a page view and another type) and its user id
FoldEventTypes == {"page_view", "click"}
FoldUserIds == {<<"user", 0>>}

\* timestamps on both sides of a midnight
FoldTimes == {TicksPerDay - 2 + k : k \in 0 .. MaxFoldTime}

FoldEventRecords ==
    [user_id : FoldUserIds,
     event_type : FoldEventTypes,
     event_timestamp : {isoformat(t) : t \in FoldTimes},
     session_id : generate_session_id]

BoundedSeq(S, n) == UNION {[1 .. k -> S] : k \in 0 .. n}

InitFold ==
    /\ pc = "fold"
    /\ clock = 0
    /\ NUM_USERS = 0
    /\ NUM_DAYS = 0
    /\ EVENTS_PER_USER_PER_DAY = <<0, 0>>
    /\ users = <<>>
    /\ start_date = 0
    /\ ui = 0
    /\ day_offset = 0
    /\ num_events = 0
    /\ event_num = 0
    /\ session_id = None
    /\ session_start = 0
    /\ events \in BoundedSeq(FoldEventRecords, MaxFoldEvents)
    /\ fi = 1
    /\ sessions = <<>>
    /\ files = {}
    /\ DagIdle
    /\ MonitorIdle

NextFold == FoldEvent \/ CalculateDurations

SpecFold == InitFold /\ [][NextFold]_vars

-----------------------------------------------------------------------------
(* Properties of generate_session_data *)

Done == pc = "done"

\* the events already folded: all of them once the fold is over
Folded == 1 .. (fi - 1)

\* the positions, among the first n events, of the events of session `sid`
EventsOf(sid, I) == {j \in I : events[j].session_id = sid}

TimesOf(sid, I) == {fromisoformat(events[j].event_timestamp) : j \in EventsOf(sid, I)}

MinOf(S) == CHOOSE x \in S : \A y \in S : x <= y
MaxOf(S) == CHOOSE x \in S : \A y \in S : x >= y

StartOf(s) == fromisoformat(s.started_at)
EndOf(s) == fromisoformat(s.ended_at[1])

RECURSIVE SumCounts(_)
SumCounts(ss) == IF ss = <<>> THEN 0 ELSE Head(ss).events_count + SumCounts(Tail(ss))

\* the fields of a session record that the derivation aggregates
Aggregates(s) ==
    [session_id |-> s.session_id, started_at |-> s.started_at, ended_at |-> s.ended_at,
     duration_seconds |-> s.duration_seconds, events_count |-> s.events_count,
     page_views |-> s.page_views]

AggregateSet(ss) == {Aggregates(ss[i]) : i \in DOMAIN ss}

Reordered(evs, p) == [i \in DOMAIN evs |-> evs[p[i]]]

\* C2: in the result, every session's started_at is the minimum event_timestamp
\* over the input events of that session_id.
StartedAtIsMinimum ==
    Done => \A i \in DOMAIN sessions :
                StartOf(sessions[i]) = MinOf(TimesOf(sessions[i].session_id, DOMAIN events))

\* C3: the derivation is order-independent: every reordering of the input gives
\* the same set of session aggregates, and a second run on the same input gives
\* identical records.
DerivationOrderIndependent ==
    Done => /\ generate_session_data(events) = sessions
            /\ \A p \in Permutations(DOMAIN events) :
                   AggregateSet(generate_session_data(Reordered(events, p)))
                       = AggregateSet(sessions)

\* C4: during the fold and in the result, every session in the map has an
\* ended_at, and it is not before its started_at.
EndedNotBeforeStarted ==
    pc \in {"fold", "done"} =>
        \A i \in DOMAIN sessions :
            /\ sessions[i].ended_at # None
            /\ EndOf(sessions[i]) >= StartOf(sessions[i])

\* a session whose first event is not its earliest has been folded
WitnessEndedNotBeforeStarted ==
    /\ pc \in {"fold", "done"}
    /\ \E i \in DOMAIN sessions :
           /\ sessions[i].events_count >= 2
           /\ \E t \in TimesOf(sessions[i].session_id, Folded) : t < StartOf(sessions[i])
           /\ \E t \in TimesOf(sessions[i].session_id, Folded) : t > StartOf(sessions[i])

\* C5: every returned session has a duration_seconds: the whole seconds of
\* ended_at - started_at, at least 0, and 0 for a single event; no session has a
\* duration before every event has been folded.
DurationIsWholeSeconds ==
    /\ pc = "fold" => \A i \in DOMAIN sessions : sessions[i].duration_seconds = None
    /\ Done => \A i \in DOMAIN sessions :
                  LET s == sessions[i]
                      span == EndOf(s) - StartOf(s)
                  IN  /\ s.duration_seconds # None
                      /\ s.duration_seconds[1] >= 0
                      /\ s.duration_seconds[1] * TicksPerSecond <= span
                      /\ span < (s.duration_seconds[1] + 1) * TicksPerSecond
                      /\ s.events_count = 1 => s.duration_seconds[1] = 0

\* a result with a session of a single event and one lasting a second and a fraction
WitnessDurationIsWholeSeconds ==
    /\ Done
    /\ \E i \in DOMAIN sessions : sessions[i].events_count = 1
    /\ \E i \in DOMAIN sessions :
           /\ sessions[i].duration_seconds[1] >= 1
           /\ (EndOf(sessions[i]) - StartOf(sessions[i])) % TicksPerSecond # 0

\* C6: the result has exactly one record per session_id of the input, and none
\* for any other id.
OneSessionPerSessionId ==
    Done => /\ {sessions[i].session_id : i \in DOMAIN sessions}
                 = {events[j].session_id : j \in DOMAIN events}
            /\ \A i, j \in DOMAIN sessions :
                   sessions[i].session_id = sessions[j].session_id => i = j

\* a result of two sessions, one of them with two events
WitnessOneSessionPerSessionId ==
    /\ Done
    /\ Len(sessions) = 2
    /\ Len(events) = 3

\* C7: events_count is the number of input events of the session, page_views the
\* number of its page_view events; events_count >= page_views >= 0,
\* events_count >= 1, and the events_count values sum to the number of events.
CountsMatchEvents ==
    Done => /\ \A i \in DOMAIN sessions :
                   LET s == sessions[i]
                       mine == EventsOf(s.session_id, DOMAIN events)
                   IN  /\ s.events_count = Cardinality(mine)
                       /\ s.page_views
                            = Cardinality({j \in mine : events[j].event_type = "page_view"})
                       /\ s.events_count >= s.page_views
                       /\ s.page_views >= 0
                       /\ s.events_count >= 1
            /\ SumCounts(sessions) = Len(events)

\* a result with a session that has page views and other events
WitnessCountsMatchEvents ==
    /\ Done
    /\ \E i \in DOMAIN sessions :
           /\ sessions[i].page_views >= 1
           /\ sessions[i].events_count > sessions[i].page_views

EndedAtNeverDecreases ==
    \A i \in DOMAIN sessions :
        (sessions[i].ended_at # None /\ i \in DOMAIN sessions')
            => /\ sessions'[i].session_id = sessions[i].session_id
               /\ sessions'[i].ended_at # None
               /\ EndOf(sessions'[i]) >= EndOf(sessions[i])

EndedAtIsMaximumAtEnd ==
    Done => \A i \in DOMAIN sessions :
                /\ sessions[i].ended_at # None
                /\ EndOf(sessions[i]) = MaxOf(TimesOf(sessions[i].session_id, DOMAIN events))

\* C8: in the result every session's ended_at is the maximum event_timestamp of
\* the input events of that session_id, and no step of the fold decreases a
\* session's ended_at.
EndedAtIsMaximum == [](EndedAtIsMaximumAtEnd) /\ [][EndedAtNeverDecreases]_vars

\* a result with a session whose last event is not its latest
WitnessEndedAtIsMaximum ==
    /\ Done
    /\ \E i \in DOMAIN sessions :
           LET mine == EventsOf(sessions[i].session_id, DOMAIN events)
           IN  /\ Cardinality(mine) >= 2
               /\ fromisoformat(events[MaxOf(mine)].event_timestamp) < EndOf(sessions[i])

-----------------------------------------------------------------------------
(* scripts/generate_sample_data.py: configuration and clock *)

\* EVENTS_PER_USER_PER_DAY[0]
MinEventsPerDay == 1
\* random.randint(0, 30) days between created_at and updated_at
MaxUpdatedDays == 30

\* the configurations explored
Configs ==
    {c \in [NUM_USERS : 1 .. MaxUsers, NUM_DAYS : 1 .. MaxDays,
            max_events : MinEventsPerDay .. MaxEventsPerDay] :
        c.NUM_USERS * c.NUM_DAYS * c.max_events <= MaxTotalEvents}

\* the day on which the run starts
BaseDay == MaxCreatedDays + MaxDays + 1

\* the run starts at noon or on the last tick before midnight
ClockStarts == {BaseDay * TicksPerDay + 12 * TicksPerHour, (BaseDay + 1) * TicksPerDay - 1}

ClockReadings == {c + k : c \in ClockStarts, k \in 0 .. MaxClockAdvance}

\* datetime.now(): the clock does not go back
Now(c) == {n \in ClockReadings : n >= c /\ n - c <= MaxClockAdvance}

\* samples of random.randint(0, 30), of <<random.randint(8, 20), random.randint(0, 59)>>,
\* of random.randint(0, 120) and of random.choices(EVENT_TYPES, weights)
UpdatedDaysChoices == {0, MaxUpdatedDays}
SessionStartChoices == {<<8, 0>>, <<20, 59>>}
EventOffsetChoices == {0, 120}
SampledEventTypes == {"page_view", "purchase"}

\* mutant of MetadataKeys: the click branch does not take scroll
MetadataKeysScrollless(event_type) ==
    CASE event_type = "purchase" -> {"amount", "currency", "product_id", "category"}
      [] event_type = "page_view" -> {"page", "category"}
      [] event_type = "signup" -> {"source", "campaign"}
      [] event_type = "click" -> {"element", "page"}
      [] event_type = "search" -> {"query", "results_count"}
      [] OTHER -> {}

\* the keys of the metadata dict built for an event type
MetadataKeys(event_type) ==
    CASE event_type = "purchase" -> {"amount", "currency", "product_id", "category"}
      [] event_type = "page_view" -> {"page", "category"}
      [] event_type = "signup" -> {"source", "campaign"}
      [] event_type \in {"click", "scroll"} -> {"element", "page"}
      [] event_type = "search" -> {"query", "results_count"}
      [] OTHER -> {}

-----------------------------------------------------------------------------
(* generate_user_data *)

\* mutant of UserAges: a user may be created on the day of the run
UserAgesFromZero == 0 .. MaxCreatedDays

\* random.randint(1, 365): the model draws the ages up to MaxCreatedDays
UserAges == 1 .. MaxCreatedDays

\* one iteration of `for i in range(NUM_USERS)`
GenerateUser ==
    /\ pc = "users"
    /\ Len(users) < NUM_USERS
    /\ \E now \in Now(clock), age \in UserAges,
          upd \in UpdatedDaysChoices, uid \in generate_user_id :
           LET created_at == now - timedelta(age, 0, 0)
           IN  /\ clock' = now
               /\ users' = Append(users,
                     [user_id |-> uid,
                      created_at |-> isoformat(created_at),
                      updated_at |-> isoformat(created_at + timedelta(upd, 0, 0))])
    /\ UNCHANGED <<pc, events, fi, sessions, genvars, files, dagvars, monvars>>

-----------------------------------------------------------------------------
(* generate_event_data *)

\* the loop position after the day at <<u, d>>: the next day, the next user, or
\* the end of both loops, where generate_event_data returns to main
AfterDay(u, d) ==
    IF d + 1 < NUM_DAYS THEN <<"day", u, d + 1>>
    ELSE IF u < Len(users) THEN <<"day", u + 1, 0>>
    ELSE <<"save_events", u, d>>

\* mutant of EventUserId: an id drawn anew instead of the user's
EventUserIdDrawnAnew(user) == CHOOSE id \in generate_user_id : id # user.user_id

\* "user_id": user_id, with user_id = user["user_id"]
EventUserId(user) == user.user_id

event_date == start_date + timedelta(day_offset, 0, 0)

user_created_at == fromisoformat(users[ui].created_at)

\* generate_event_data is entered and reads the clock
BeginEventData ==
    /\ pc = "events"
    /\ \E now \in Now(clock) :
           /\ clock' = now
           /\ start_date' = now - timedelta(NUM_DAYS, 0, 0)
    /\ ui' = 1
    /\ day_offset' = 0
    /\ pc' = IF Len(users) >= 1 /\ NUM_DAYS >= 1 THEN "day" ELSE "save_events"
    /\ UNCHANGED <<NUM_USERS, NUM_DAYS, EVENTS_PER_USER_PER_DAY, users, num_events,
                   event_num, session_id, session_start, events, fi, sessions, files,
                   dagvars, monvars>>

\* "Skip days before user was created"
SkipDay ==
    /\ pc = "day"
    /\ date(event_date) < date(user_created_at)
    /\ pc' = AfterDay(ui, day_offset)[1]
    /\ ui' = AfterDay(ui, day_offset)[2]
    /\ day_offset' = AfterDay(ui, day_offset)[3]
    /\ UNCHANGED <<clock, NUM_USERS, NUM_DAYS, EVENTS_PER_USER_PER_DAY, users,
                   start_date, num_events, event_num, session_id, session_start,
                   events, fi, sessions, files, dagvars, monvars>>

\* mutant of EventCounts: one more than the maximum may be drawn
EventCountsOneMore(r) == r[1] .. (r[2] + 1)

\* random.randint(*EVENTS_PER_USER_PER_DAY): the values it may return
EventCounts(r) == r[1] .. r[2]

\* the day's number of events, session id and session start; the inner loop is
\* entered unless range(num_events) is empty
StartSession ==
    /\ pc = "day"
    /\ ~(date(event_date) < date(user_created_at))
    /\ \E n \in EventCounts(EVENTS_PER_USER_PER_DAY),
          sid \in generate_session_id, hm \in SessionStartChoices :
           /\ num_events' = n
           /\ session_id' = sid
           /\ session_start' = event_date + timedelta(0, hm[1], hm[2])
           /\ pc' = IF n >= 1 THEN "event" ELSE AfterDay(ui, day_offset)[1]
           /\ ui' = IF n >= 1 THEN ui ELSE AfterDay(ui, day_offset)[2]
           /\ day_offset' = IF n >= 1 THEN day_offset ELSE AfterDay(ui, day_offset)[3]
    /\ event_num' = 0
    /\ UNCHANGED <<clock, NUM_USERS, NUM_DAYS, EVENTS_PER_USER_PER_DAY, users,
                   start_date, events, fi, sessions, files, dagvars, monvars>>

\* random.randint raises ValueError for an empty range
RandintRaises ==
    /\ pc = "day"
    /\ ~(date(event_date) < date(user_created_at))
    /\ EVENTS_PER_USER_PER_DAY[1] > EVENTS_PER_USER_PER_DAY[2]
    /\ pc' = "failed"
    /\ UNCHANGED <<clock, users, events, fi, sessions, genvars, files, dagvars, monvars>>

\* one iteration of `for event_num in range(num_events)`, the event type drawn
\* from Types
GenerateEventOf(Types) ==
    /\ pc = "event"
    /\ \E off \in EventOffsetChoices, event_type \in Types :
           LET event_time == session_start + timedelta(0, 0, off)
           IN  events' = Append(events,
                   [user_id |-> EventUserId(users[ui]),
                    event_type |-> event_type,
                    event_timestamp |-> isoformat(event_time),
                    session_id |-> session_id,
                    metadata |-> MetadataKeys(event_type)])
    /\ event_num' = event_num + 1
    /\ IF event_num + 1 < num_events
       THEN UNCHANGED <<pc, ui, day_offset>>
       ELSE /\ pc' = AfterDay(ui, day_offset)[1]
            /\ ui' = AfterDay(ui, day_offset)[2]
            /\ day_offset' = AfterDay(ui, day_offset)[3]
    /\ UNCHANGED <<clock, NUM_USERS, NUM_DAYS, EVENTS_PER_USER_PER_DAY, users,
                   start_date, num_events, session_id, session_start, fi, sessions,
                   files, dagvars, monvars>>

GenerateEvent == GenerateEventOf(SampledEventTypes)

\* the same with every type of EVENT_TYPES
GenerateEventAnyType == GenerateEventOf(EVENT_TYPES)

-----------------------------------------------------------------------------
(* main: the saves *)

UserFiles == <<"users.csv", "users.json">>
EventFiles == <<"events.csv", "events.json">>
SessionFiles == <<"sessions.csv", "sessions.json">>

Range(f) == {f[i] : i \in DOMAIN f}

\* generate_user_data has returned: save_to_csv(users, ...); save_to_json(users, ...)
SaveUsers ==
    /\ pc = "users"
    /\ Len(users) >= NUM_USERS
    /\ files' = files \cup Range(UserFiles)
    /\ pc' = "events"
    /\ UNCHANGED <<clock, users, events, fi, sessions, genvars, dagvars, monvars>>

\* generate_event_data has returned: save_to_csv(events, ...); save_to_json(events, ...)
SaveEvents ==
    /\ pc = "save_events"
    /\ files' = files \cup Range(EventFiles)
    /\ pc' = "fold"
    /\ UNCHANGED <<clock, users, events, fi, sessions, genvars, dagvars, monvars>>

\* generate_session_data has returned to main, which has saved the events before:
\* save_to_csv(sessions, ...); save_to_json(sessions, ...)
SaveSessions ==
    /\ pc = "done"
    /\ Range(EventFiles) \subseteq files
    /\ files' = files \cup Range(SessionFiles)
    /\ pc' = "saved"
    /\ UNCHANGED <<clock, users, events, fi, sessions, genvars, dagvars, monvars>>

\* the pair of files main is about to save, <<>> when it is not at a save
PendingFiles ==
    IF pc = "users" /\ Len(users) >= NUM_USERS THEN UserFiles
    ELSE IF pc = "save_events" THEN EventFiles
    ELSE IF pc = "done" /\ Range(EventFiles) \subseteq files THEN SessionFiles
    ELSE <<>>

\* a save raises (to_csv or open fails): the files saved before it stay, main ends
SaveFails ==
    /\ PendingFiles # <<>>
    /\ \E k \in 0 .. (Len(PendingFiles) - 1) :
           files' = files \cup Range(SubSeq(PendingFiles, 1, k))
    /\ pc' = "failed"
    /\ UNCHANGED <<clock, users, events, fi, sessions, genvars, dagvars, monvars>>

-----------------------------------------------------------------------------
(* main of scripts/generate_sample_data.py *)

InitGen ==
    /\ pc = "users"
    /\ clock \in ClockStarts
    /\ \E c \in Configs :
           /\ NUM_USERS = c.NUM_USERS
           /\ NUM_DAYS = c.NUM_DAYS
           /\ EVENTS_PER_USER_PER_DAY = <<MinEventsPerDay, c.max_events>>
    /\ users = <<>>
    /\ start_date = 0
    /\ ui = 0
    /\ day_offset = 0
    /\ num_events = 0
    /\ event_num = 0
    /\ session_id = None
    /\ session_start = 0
    /\ events = <<>>
    /\ fi = 1
    /\ sessions = <<>>
    /\ files = {}
    /\ DagIdle
    /\ MonitorIdle

NextGen ==
    \/ GenerateUser
    \/ SaveUsers
    \/ BeginEventData
    \/ SkipDay
    \/ StartSession
    \/ GenerateEvent
    \/ SaveEvents
    \/ FoldEvent
    \/ CalculateDurations
    \/ SaveSessions

SpecGen == InitGen /\ [][NextGen]_vars

\* main with one user, the event type drawn from all of EVENT_TYPES
InitGenTypes == InitGen /\ NUM_USERS = 1

NextGenTypes ==
    \/ GenerateUser
    \/ SaveUsers
    \/ BeginEventData
    \/ SkipDay
    \/ StartSession
    \/ GenerateEventAnyType
    \/ SaveEvents
    \/ FoldEvent
    \/ CalculateDurations
    \/ SaveSessions

SpecGenTypes == InitGenTypes /\ [][NextGenTypes]_vars

-----------------------------------------------------------------------------
(* main under any configuration, with the failures it can meet *)

Max0(x) == IF x > 0 THEN x ELSE 0

\* the most events a configuration of SpecMain can generate
MaxMainEvents == 1

\* the configurations of SpecGen and those with a zero or negative count, a
\* negative bound or min > max
MainConfigs ==
    {c \in [NUM_USERS : -1 .. MaxUsers, NUM_DAYS : -1 .. MaxDays,
            min_events : -1 .. MaxEventsPerDay, max_events : -1 .. MaxEventsPerDay] :
        Max0(c.NUM_USERS) * Max0(c.NUM_DAYS) * Max0(c.max_events) <= MaxMainEvents}

InitMain ==
    /\ pc = "users"
    /\ clock \in ClockStarts
    /\ \E c \in MainConfigs :
           /\ NUM_USERS = c.NUM_USERS
           /\ NUM_DAYS = c.NUM_DAYS
           /\ EVENTS_PER_USER_PER_DAY = <<c.min_events, c.max_events>>
    /\ users = <<>>
    /\ start_date = 0
    /\ ui = 0
    /\ day_offset = 0
    /\ num_events = 0
    /\ event_num = 0
    /\ session_id = None
    /\ session_start = 0
    /\ events = <<>>
    /\ fi = 1
    /\ sessions = <<>>
    /\ files = {}
    /\ DagIdle
    /\ MonitorIdle

NextMain ==
    \/ NextGen
    \/ RandintRaises
    \/ SaveFails

SpecMain == InitMain /\ [][NextMain]_vars

-----------------------------------------------------------------------------
(* simple_data_generator.py: generate_sample_data *)

\* num_days
SimpleNumDays == 30

\* samples of timedelta(days=random.randint(0, num_days), hours=random.randint(0, 23),
\* minutes=random.randint(0, 59))
SimpleEventAges == {timedelta(0, 0, 0), timedelta(SimpleNumDays, 23, 59)}

\* f"sess_{random.randint(1, 50):03d}"
SimpleSessionIdChoices == {<<"sess", n>> : n \in 1 .. SimpleSessionIds}

\* user_ids = [user["user_id"] for user in users]
user_ids == {users[u].user_id : u \in DOMAIN users}

\* one iteration of `for i in range(num_users)`
SimpleGenerateUser ==
    /\ pc = "simple_users"
    /\ Len(users) < SimpleNumUsers
    /\ \E now1 \in Now(clock), age \in 1 .. MaxCreatedDays, upd \in UpdatedDaysChoices :
         \E now2 \in Now(now1) :
           /\ clock' = now2
           /\ users' = Append(users,
                 [user_id |-> <<"user", Len(users) + 1>>,
                  created_at |-> isoformat(now1 - timedelta(age, 0, 0)),
                  updated_at |-> isoformat(now2 - timedelta(upd, 0, 0))])
    /\ UNCHANGED <<pc, events, fi, sessions, genvars, files, dagvars, monvars>>

\* the users are complete: "Generate events"
SimpleBeginEvents ==
    /\ pc = "simple_users"
    /\ Len(users) = SimpleNumUsers
    /\ pc' = "simple_events"
    /\ UNCHANGED <<clock, users, events, fi, sessions, genvars, files, dagvars, monvars>>

\* one iteration of `for i in range(num_events)`
SimpleGenerateEvent ==
    /\ pc = "simple_events"
    /\ Len(events) < SimpleNumEvents
    /\ \E user_id \in user_ids, event_type \in SampledEventTypes, now \in Now(clock),
          age \in SimpleEventAges, sid \in SimpleSessionIdChoices :
           /\ clock' = now
           /\ events' = Append(events,
                 [user_id |-> user_id,
                  event_type |-> event_type,
                  event_timestamp |-> isoformat(now - age),
                  session_id |-> sid,
                  metadata |-> IF event_type \in {"purchase", "page_view", "signup"}
                               THEN MetadataKeys(event_type) ELSE {}])
    /\ UNCHANGED <<pc, users, fi, sessions, genvars, files, dagvars, monvars>>

\* the events are complete: "Generate sessions", the fold of generate_session_data
SimpleBeginSessions ==
    /\ pc = "simple_events"
    /\ Len(events) = SimpleNumEvents
    /\ pc' = "fold"
    /\ UNCHANGED <<clock, users, events, fi, sessions, genvars, files, dagvars, monvars>>

InitSimple ==
    /\ pc = "simple_users"
    /\ clock \in ClockStarts
    /\ NUM_USERS = 0
    /\ NUM_DAYS = 0
    /\ EVENTS_PER_USER_PER_DAY = <<0, 0>>
    /\ users = <<>>
    /\ start_date = 0
    /\ ui = 0
    /\ day_offset = 0
    /\ num_events = 0
    /\ event_num = 0
    /\ session_id = None
    /\ session_start = 0
    /\ events = <<>>
    /\ fi = 1
    /\ sessions = <<>>
    /\ files = {}
    /\ DagIdle
    /\ MonitorIdle

NextSimple ==
    \/ SimpleGenerateUser
    \/ SimpleBeginEvents
    \/ SimpleGenerateEvent
    \/ SimpleBeginSessions
    \/ FoldEvent
    \/ CalculateDurations

SpecSimple == InitSimple /\ [][NextSimple]_vars

-----------------------------------------------------------------------------
(* scripts/trial_data_ingestion.py: TrialDataIngestion.ingest_sample_data *)

\* user_ids = [f"user_{i:04d}" for i in range(1, 101)]
TrialUserIds == [i \in 1 .. TrialNumUsers |-> <<"user", i>>]

\* event_types; the events draw from those of it that are in SampledEventTypes
TrialEventTypes == {"purchase", "page_view", "signup", "login", "click", "scroll"}

\* samples of timedelta(days=random.randint(0, 30), hours=random.randint(0, 23),
\* minutes=random.randint(0, 59))
TrialEventAges == {timedelta(0, 0, 0), timedelta(MaxUpdatedDays, 23, 59)}

\* one iteration of `for i, user_id in enumerate(user_ids)`
TrialGenerateUser ==
    /\ pc = "trial_users"
    /\ Len(users) < Len(TrialUserIds)
    /\ \E now1 \in Now(clock), age \in 1 .. MaxCreatedDays, upd \in UpdatedDaysChoices :
         \E now2 \in Now(now1) :
           /\ clock' = now2
           /\ users' = Append(users,
                 [user_id |-> TrialUserIds[Len(users) + 1],
                  created_at |-> now1 - timedelta(age, 0, 0),
                  updated_at |-> now2 - timedelta(upd, 0, 0)])
    /\ UNCHANGED <<pc, events, fi, sessions, genvars, files, dagvars, monvars>>

\* the users are complete: "Generate sample events"
TrialBeginEvents ==
    /\ pc = "trial_users"
    /\ Len(users) = Len(TrialUserIds)
    /\ pc' = "trial_events"
    /\ UNCHANGED <<clock, users, events, fi, sessions, genvars, files, dagvars, monvars>>

\* one iteration of `for i in range(num_events)`
TrialGenerateEvent ==
    /\ pc = "trial_events"
    /\ Len(events) < TrialNumEvents
    /\ \E u \in DOMAIN TrialUserIds, event_type \in TrialEventTypes \cap SampledEventTypes,
          now \in Now(clock),
          age \in TrialEventAges, sid \in SimpleSessionIdChoices :
           /\ clock' = now
           /\ events' = Append(events,
                 [user_id |-> TrialUserIds[u],
                  event_type |-> event_type,
                  event_timestamp |-> now - age,
                  session_id |-> sid,
                  metadata |-> IF event_type \in {"purchase", "page_view"}
                               THEN MetadataKeys(event_type) ELSE {}])
    /\ UNCHANGED <<pc, users, fi, sessions, genvars, files, dagvars, monvars>>

\* the events are complete: the two tables are loaded
TrialLoadTables ==
    /\ pc = "trial_events"
    /\ Len(events) = TrialNumEvents
    /\ pc' = "trial_loaded"
    /\ UNCHANGED <<clock, users, events, fi, sessions, genvars, files, dagvars, monvars>>

InitTrial ==
    /\ pc = "trial_users"
    /\ clock \in ClockStarts
    /\ NUM_USERS = 0
    /\ NUM_DAYS = 0
    /\ EVENTS_PER_USER_PER_DAY = <<0, 0>>
    /\ users = <<>>
    /\ start_date = 0
    /\ ui = 0
    /\ day_offset = 0
    /\ num_events = 0
    /\ event_num = 0
    /\ session_id = None
    /\ session_start = 0
    /\ events = <<>>
    /\ fi = 1
    /\ sessions = <<>>
    /\ files = {}
    /\ DagIdle
    /\ MonitorIdle

NextTrial ==
    \/ TrialGenerateUser
    \/ TrialBeginEvents
    \/ TrialGenerateEvent
    \/ TrialLoadTables

SpecTrial == InitTrial /\ [][NextTrial]_vars

-----------------------------------------------------------------------------
(* the three generators *)

InitGenerators == InitGen \/ InitSimple \/ InitTrial

NextGenerators == NextGen \/ NextSimple \/ NextTrial

SpecGenerators == InitGenerators /\ [][NextGenerators]_vars

-----------------------------------------------------------------------------
(* Properties of the generators *)

EventTime(e) == fromisoformat(e.event_timestamp)

\* C1: no generated event is earlier than the creation of the user whose
\* user_id it carries (timestamps compared, not dates).
EventNotBeforeUserCreation ==
    \A j \in DOMAIN events : \A u \in DOMAIN users :
        users[u].user_id = events[j].user_id
            => EventTime(events[j]) >= fromisoformat(users[u].created_at)

\* C9: every generated event carries the user_id of a user record of the run.
EventUserExists ==
    \A j \in DOMAIN events : \E u \in DOMAIN users : users[u].user_id = events[j].user_id

\* C10: events of generate_event_data that share a session_id share the user_id,
\* and each derived session record carries the user_id of all of its events.
SessionHasOneUser ==
    /\ \A i, j \in DOMAIN events :
           events[i].session_id = events[j].session_id
               => events[i].user_id = events[j].user_id
    /\ Done => \A k \in DOMAIN sessions : \A j \in DOMAIN events :
                   events[j].session_id = sessions[k].session_id
                       => events[j].user_id = sessions[k].user_id

\* the scripts generator has returned events of two different users
WitnessEventUserExists ==
    /\ Done
    /\ NUM_USERS = 2
    /\ \E i, j \in DOMAIN events : events[i].user_id # events[j].user_id

-----------------------------------------------------------------------------
(* Properties of generate_user_data *)

\* generate_user_data has returned
UsersReturned == pc # "users"

\* C11: generate_user_data returns exactly NUM_USERS user records, no two of
\* them with the same user_id.
UsersCountedAndDistinct ==
    UsersReturned =>
        /\ Len(users) = NUM_USERS
        /\ \A i, j \in DOMAIN users : users[i].user_id = users[j].user_id => i = j

\* the first half of C11 alone: the number of records
UsersCounted == UsersReturned => Len(users) = NUM_USERS

\* random.randint(1, 365): the oldest a user can be, in days
MaxUserAgeDays == 365

\* the user appended by the step, when the step appends one
UserAppended == Len(users') = Len(users) + 1

\* a step of generate_user_data reads the clock (clock') and appends a user
\* created 1 to 365 whole days before that reading and updated 0 to 30 whole
\* days after the creation
UserTimesWithinRanges ==
    UserAppended =>
        LET u == users'[Len(users')]
            created_at == fromisoformat(u.created_at)
            updated_at == fromisoformat(u.updated_at)
        IN  /\ \E k \in 1 .. MaxUserAgeDays : created_at = clock' - timedelta(k, 0, 0)
            /\ \E k \in 0 .. MaxUpdatedDays : updated_at = created_at + timedelta(k, 0, 0)

\* no user is updated before it was created
UpdatedNotBeforeCreated ==
    \A i \in DOMAIN users :
        fromisoformat(users[i].updated_at) >= fromisoformat(users[i].created_at)

\* C12: every user record of generate_user_data has created_at between 1 and 365
\* days before the generation time and updated_at between created_at and
\* created_at + 30 days, so updated_at >= created_at for every user.
UserTimestampsInRange == [][UserTimesWithinRanges]_vars /\ [](UpdatedNotBeforeCreated)

\* two users were generated, one updated on the day of its creation and one 30
\* days after it
WitnessUserTimestampsInRange ==
    /\ UsersReturned
    /\ \E i, j \in DOMAIN users :
           /\ users[i].updated_at = users[i].created_at
           /\ fromisoformat(users[j].updated_at)
                  = fromisoformat(users[j].created_at) + timedelta(MaxUpdatedDays, 0, 0)

-----------------------------------------------------------------------------
(* Properties of generate_event_data *)

SessionIdsOf(evs) == {evs[k].session_id : k \in DOMAIN evs}

\* a step of generate_event_data on a (user, day) pair: a day that is not
\* skipped draws a count within EVENTS_PER_USER_PER_DAY and starts at event 0;
\* every step of the inner loop appends one event with the session_id of the
\* day, and the loop ends exactly when the count is reached; no other step of
\* the day appends an event
DayEmitsCountInRange ==
    /\ (pc = "day" /\ pc' = "event") =>
           /\ num_events' \in EVENTS_PER_USER_PER_DAY[1] .. EVENTS_PER_USER_PER_DAY[2]
           /\ event_num' = 0
           /\ events' = events
    /\ (pc = "day" /\ pc' # "event") => events' = events
    /\ pc = "event" =>
           /\ Len(events') = Len(events) + 1
           /\ SubSeq(events', 1, Len(events)) = events
           /\ events'[Len(events')].session_id = session_id
           /\ event_num' = event_num + 1
           /\ (pc' = "event") = (event_num' < num_events)
           /\ pc' = "event" => session_id' = session_id /\ num_events' = num_events

\* the totals that follow
EventTotalsBounded ==
    /\ Len(events) <= NUM_USERS * NUM_DAYS * EVENTS_PER_USER_PER_DAY[2]
    /\ Cardinality(SessionIdsOf(events)) <= NUM_USERS * NUM_DAYS

\* C13: for every user and every day that is not skipped, generate_event_data
\* emits between the minimum and the maximum of EVENTS_PER_USER_PER_DAY events,
\* all with one session_id; so there are at most users x days x max events and at
\* most users x days distinct session_ids.
EventsPerDayInRange == [][DayEmitsCountInRange]_vars /\ [](EventTotalsBounded)

\* generate_event_data has returned
EventsReturned == pc \in {"save_events", "fold", "done", "saved"}

\* one user and one day gave the maximum of two events, in one session
WitnessEventsPerDayInRange ==
    /\ EventsReturned
    /\ NUM_USERS * NUM_DAYS = 1
    /\ EVENTS_PER_USER_PER_DAY[2] = 2
    /\ Len(events) = 2
    /\ Cardinality(SessionIdsOf(events)) = 1

\* the metadata keys the event types are to have
SchemaOf(event_type) ==
    IF event_type = "purchase" THEN {"amount", "currency", "product_id", "category"}
    ELSE IF event_type = "page_view" THEN {"page", "category"}
    ELSE IF event_type = "signup" THEN {"source", "campaign"}
    ELSE IF event_type = "click" \/ event_type = "scroll" THEN {"element", "page"}
    ELSE IF event_type = "search" THEN {"query", "results_count"}
    ELSE {}

\* C14: the metadata key set of an event of generate_event_data is decided by
\* its event type (purchase: amount, currency, product_id, category; page_view:
\* page, category; signup: source, campaign; click and scroll: element, page;
\* search: query, results_count; login and logout: none), and every event_type
\* is a member of EVENT_TYPES.
MetadataKeysByEventType ==
    \A k \in DOMAIN events :
        /\ events[k].event_type \in EVENT_TYPES
        /\ events[k].metadata = SchemaOf(events[k].event_type)

\* a scroll event and a login event were generated, with their metadata
WitnessMetadataKeysByEventType ==
    /\ EventsReturned
    /\ \E j, k \in DOMAIN events :
           /\ events[j].event_type = "scroll" /\ events[j].metadata = {"element", "page"}
           /\ events[k].event_type = "login" /\ events[k].metadata = {}

-----------------------------------------------------------------------------
(* Properties of main *)

\* a count is zero or negative, a bound of EVENTS_PER_USER_PER_DAY is negative,
\* or its minimum exceeds its maximum
ConfigOutOfRange ==
    \/ NUM_USERS <= 0
    \/ NUM_DAYS <= 0
    \/ EVENTS_PER_USER_PER_DAY[1] < 0
    \/ EVENTS_PER_USER_PER_DAY[2] < 0
    \/ EVENTS_PER_USER_PER_DAY[1] > EVENTS_PER_USER_PER_DAY[2]

\* C15: when the configuration is out of range the generator fails before any
\* user or event is generated: no user, no event, and no run that ends with
\* (empty) output.
OutOfRangeConfigFailsFast ==
    ConfigOutOfRange => users = <<>> /\ events = <<>> /\ pc # "saved"

\* the part of C15 about an empty result: no run with a configuration out of
\* range ends normally
OutOfRangeConfigNeverCompletes == ConfigOutOfRange => pc # "saved"

AllFiles == Range(UserFiles) \cup Range(EventFiles) \cup Range(SessionFiles)

\* main has ended, normally or by an exception
MainEnded == pc \in {"saved", "failed"}

\* C16: a run of main is all-or-nothing: when it has failed none of the six
\* output files has been written, and files are there at its end only when every
\* step succeeded (then all six).
RunIsAllOrNothing ==
    /\ pc = "failed" => files = {}
    /\ (MainEnded /\ files # {}) => (pc = "saved" /\ files = AllFiles)

\* C17: in the sequence of generate_event_data the events of a session are in
\* temporal order: of two events with the same session_id, the one emitted first
\* has the earlier or the same event_timestamp.
SessionEventsInTemporalOrder ==
    \A i, j \in DOMAIN events :
        (i < j /\ events[i].session_id = events[j].session_id)
            => EventTime(events[i]) <= EventTime(events[j])

\* the hour of day of a time
hour(t) == (t % TicksPerDay) \div TicksPerHour

\* C18: the session start of a (user, day) pair lies in the business hours of the
\* calendar day being generated: its date is that day and its hour is 8 to 20.
SessionStartInBusinessHours ==
    pc = "event" =>
        /\ date(session_start) = date(event_date)
        /\ hour(session_start) \in 8 .. 20

-----------------------------------------------------------------------------
(* data_pipeline_dag.py: one run of the DAG data_platform_pipeline under the
   Airflow scheduler *)

\* the variables of the generators
generatorvars == <<clock, users, events, fi, sessions, genvars, files>>

\* default_args['retries']
retries == 2

\* the task_id of every operator of the DAG
Tasks ==
    {"check_new_data", "load_raw_events", "dbt_staging", "dbt_test_staging",
     "dbt_curated", "dbt_test_curated", "dbt_mart", "dbt_test_mart", "dbt_docs",
     "data_quality_check", "send_success_notification", "cleanup_temp_files"}

\* a >> b >> c: an edge from each task to the next
Chain(s) == {<<s[i], s[i + 1]>> : i \in 1 .. (Len(s) - 1)}

\* mutant of Dependencies: the third statement starts at dbt_mart
DependenciesWithoutCuratedTest ==
    Chain(<<"check_new_data", "load_raw_events", "dbt_staging", "dbt_test_staging">>)
        \cup Chain(<<"dbt_test_staging", "dbt_curated", "dbt_test_curated">>)
        \cup Chain(<<"dbt_mart", "dbt_test_mart">>)
        \cup Chain(<<"dbt_test_mart", "dbt_docs", "data_quality_check">>)
        \cup Chain(<<"data_quality_check", "send_success_notification", "cleanup_temp_files">>)

\* the five statements that define the task dependencies
Dependencies ==
    Chain(<<"check_new_data", "load_raw_events", "dbt_staging", "dbt_test_staging">>)
        \cup Chain(<<"dbt_test_staging", "dbt_curated", "dbt_test_curated">>)
        \cup Chain(<<"dbt_test_curated", "dbt_mart", "dbt_test_mart">>)
        \cup Chain(<<"dbt_test_mart", "dbt_docs", "data_quality_check">>)
        \cup Chain(<<"data_quality_check", "send_success_notification", "cleanup_temp_files">>)

Upstream(t) == {u \in Tasks : <<u, t>> \in Dependencies}

\* no operator sets trigger_rule, so each task has the default all_success: it
\* may run once every upstream task has succeeded
AllSuccess(t) == \A u \in Upstream(t) : task_state[u] = "success"

\* with all_success a task whose upstream task failed, or was itself marked
\* upstream_failed, is marked upstream_failed and never runs
UpstreamHasFailed(t) ==
    \E u \in Upstream(t) : task_state[u] \in {"failed", "upstream_failed"}

\* the scheduler starts a task instance for its first try
TaskStart(t) ==
    /\ pc = "dag_run"
    /\ task_state[t] = "none"
    /\ AllSuccess(t)
    /\ task_state' = [task_state EXCEPT ![t] = "running"]
    /\ try_number' = [try_number EXCEPT ![t] = 1]
    /\ started' = Append(started, t)
    /\ UNCHANGED <<pc, generatorvars, monvars>>

\* the operator's execute returns
TaskSucceed(t) ==
    /\ pc = "dag_run"
    /\ task_state[t] = "running"
    /\ task_state' = [task_state EXCEPT ![t] = "success"]
    /\ UNCHANGED <<pc, try_number, started, generatorvars, monvars>>

\* the operator's execute raises (the sensor times out, a query or a command
\* fails): the task is retried while it has retries left, else it has failed
TaskFail(t) ==
    /\ pc = "dag_run"
    /\ task_state[t] = "running"
    /\ task_state' = [task_state EXCEPT
           ![t] = IF try_number[t] <= retries THEN "up_for_retry" ELSE "failed"]
    /\ UNCHANGED <<pc, try_number, started, generatorvars, monvars>>

\* after retry_delay the scheduler runs the task again
TaskRetry(t) ==
    /\ pc = "dag_run"
    /\ task_state[t] = "up_for_retry"
    /\ task_state' = [task_state EXCEPT ![t] = "running"]
    /\ try_number' = [try_number EXCEPT ![t] = try_number[t] + 1]
    /\ UNCHANGED <<pc, started, generatorvars, monvars>>

\* the scheduler marks a task whose upstream failed
MarkUpstreamFailed(t) ==
    /\ pc = "dag_run"
    /\ task_state[t] = "none"
    /\ UpstreamHasFailed(t)
    /\ task_state' = [task_state EXCEPT ![t] = "upstream_failed"]
    /\ UNCHANGED <<pc, try_number, started, generatorvars, monvars>>

InitDag ==
    /\ pc = "dag_run"
    /\ clock = 0
    /\ NUM_USERS = 0
    /\ NUM_DAYS = 0
    /\ EVENTS_PER_USER_PER_DAY = <<0, 0>>
    /\ users = <<>>
    /\ start_date = 0
    /\ ui = 0
    /\ day_offset = 0
    /\ num_events = 0
    /\ event_num = 0
    /\ session_id = None
    /\ session_start = 0
    /\ events = <<>>
    /\ fi = 1
    /\ sessions = <<>>
    /\ files = {}
    /\ task_state = [t \in Tasks |-> "none"]
    /\ try_number = [t \in Tasks |-> 0]
    /\ started = <<>>
    /\ MonitorIdle

NextDag ==
    \E t \in Tasks :
        \/ TaskStart(t)
        \/ TaskSucceed(t)
        \/ TaskFail(t)
        \/ TaskRetry(t)
        \/ MarkUpstreamFailed(t)

SpecDag == InitDag /\ [][NextDag]_vars

-----------------------------------------------------------------------------
(* Properties of the DAG *)

\* the order in which the tasks are to run
ExecutionOrder ==
    <<"check_new_data", "load_raw_events", "dbt_staging", "dbt_test_staging",
      "dbt_curated", "dbt_test_curated", "dbt_mart", "dbt_test_mart", "dbt_docs",
      "data_quality_check", "send_success_notification", "cleanup_temp_files">>

\* the task has started at least once
HasRun(t) == task_state[t] \in {"running", "up_for_retry", "success", "failed"}

\* C19: in a run of the DAG the twelve tasks execute in one linear order: the
\* tasks started so far are a prefix of that order, no task has started unless
\* its predecessor has succeeded, a task fails only after its retries, and once
\* a task has failed no later task of the order runs.
TasksRunInLinearOrder ==
    pc = "dag_run" =>
        /\ Len(started) <= Len(ExecutionOrder)
        /\ \A i \in DOMAIN started : started[i] = ExecutionOrder[i]
        /\ \A i \in DOMAIN ExecutionOrder :
               /\ HasRun(ExecutionOrder[i]) <=> i <= Len(started)
               /\ (i > 1 /\ HasRun(ExecutionOrder[i]))
                      => task_state[ExecutionOrder[i - 1]] = "success"
               /\ task_state[ExecutionOrder[i]] = "failed" =>
                      /\ try_number[ExecutionOrder[i]] = retries + 1
                      /\ \A j \in DOMAIN ExecutionOrder :
                             j > i => /\ ~HasRun(ExecutionOrder[j])
                                      /\ try_number[ExecutionOrder[j]] = 0

\* dbt_test_curated failed after its three tries: the six tasks up to it ran in
\* order and every later task is marked upstream_failed
WitnessTasksRunInLinearOrder ==
    /\ pc = "dag_run"
    /\ task_state["dbt_test_curated"] = "failed"
    /\ try_number["dbt_test_curated"] = 3
    /\ started = SubSeq(ExecutionOrder, 1, 6)
    /\ \A j \in 7 .. 12 : task_state[ExecutionOrder[j]] = "upstream_failed"

-----------------------------------------------------------------------------
(* data_quality_monitor.py: one run of main *)

\* the number of tables of tables_to_check the model checks for freshness
MaxFreshnessTables == 2

\* check_data_freshness: the default of max_hours
max_hours == 4

\* generate_quality_report: tables_to_check (the table names) and staging_tables
tables_to_check ==
    <<"stg_events", "stg_users", "user_metrics", "event_metrics", "business_metrics">>
staging_tables == <<"stg_events", "stg_users">>

\* the tables of tables_to_check that are checked
FreshnessTables == SubSeq(tables_to_check, 1, MaxFreshnessTables)

\* the values of hours_behind: None, an integer of the dataframe, and the two
\* values a NULL of the query can become in the dataframe (a float NaN, or pd.NA
\* in a nullable integer column, according to the library versions)
PyNone == [kind |-> "None", value |-> 0]
PyInt(h) == [kind |-> "int", value |-> h]
NaN == [kind |-> "nan", value |-> 0]
NA == [kind |-> "NA", value |-> 0]

\* what a freshness query can give: an exception, an empty result, a row with
\* the latest date and hours_behind, or, for a table without a date (no rows, or
\* only NULLs in the column), the one row of the aggregate with both NULL
FreshnessOutcomes ==
    {[kind |-> "raises", latest_date |-> "None", hours_behind |-> PyNone],
     [kind |-> "empty", latest_date |-> "None", hours_behind |-> PyNone]}
        \cup {[kind |-> "row", latest_date |-> "date", hours_behind |-> PyInt(h)] :
                 h \in {max_hours, max_hours + 1}}
        \cup {[kind |-> "row", latest_date |-> "NaT", hours_behind |-> n] : n \in {NaN, NA}}

\* hours_behind > max_hours where it has a truth value: a comparison with NaN is
\* False
IsBehind(hours_behind, limit) ==
    hours_behind.kind = "int" /\ hours_behind.value > limit

\* check_data_freshness(table_name, date_column) on a query outcome: the name of
\* the check, the status, the message (None: the result has no message),
\* latest_date and hours_behind of the result, the anomaly it shows, and whether
\* the result holds an integer taken from a dataframe with .iloc[0] (a
\* numpy.int64). `if hours_behind > max_hours` raises TypeError on pd.NA, which
\* the except clause turns into an error result.
check_data_freshness(table_name, o) ==
    IF o.kind = "raises" \/ (o.kind = "row" /\ o.hours_behind = NA)
    THEN [name |-> <<table_name, "freshness">>, status |-> "error",
          message |-> Some("Error checking freshness"), latest_date |-> "None",
          hours_behind |-> PyNone, found |-> {}, numpy_int |-> FALSE]
    ELSE IF o.kind = "empty"
    THEN [name |-> <<table_name, "freshness">>, status |-> "error",
          message |-> Some("No data found"), latest_date |-> "None",
          hours_behind |-> PyNone, found |-> {}, numpy_int |-> FALSE]
    ELSE IF IsBehind(o.hours_behind, max_hours)
    THEN [name |-> <<table_name, "freshness">>, status |-> "warning",
          message |-> Some("hours behind"), latest_date |-> o.latest_date,
          hours_behind |-> o.hours_behind, found |-> {"stale"}, numpy_int |-> TRUE]
    ELSE [name |-> <<table_name, "freshness">>, status |-> "success",
          message |-> Some("is fresh"), latest_date |-> o.latest_date,
          hours_behind |-> o.hours_behind, found |-> {},
          numpy_int |-> o.hours_behind.kind = "int"]

\* the anomalies the counts of a result show: a count above zero
Positive(counts) == {k \in DOMAIN counts : counts[k] > 0}

\* what the queries of check_data_quality can give: an exception, or the null
\* count of a critical column and the duplicate count
QualityOutcomes ==
    {[kind |-> "raises", counts |-> [null_count |-> 0, duplicate_count |-> 0]]}
        \cup {[kind |-> "rows", counts |-> [null_count |-> n, duplicate_count |-> d]] :
                 n \in 0 .. 1, d \in 0 .. 1}

\* check_data_quality(table_name): the status is success whatever the counts
check_data_quality(table_name, o) ==
    IF o.kind = "raises"
    THEN [name |-> <<table_name, "quality">>, status |-> "error",
          message |-> Some("exception"), found |-> {}, numpy_int |-> FALSE]
    ELSE [name |-> <<table_name, "quality">>, status |-> "success",
          message |-> None, found |-> Positive(o.counts), numpy_int |-> TRUE]

\* what the queries of check_business_rules can give
BusinessOutcomes ==
    {[kind |-> "raises",
      counts |-> [negative_revenue_count |-> 0, future_timestamp_count |-> 0,
                  invalid_event_types_count |-> 0]]}
        \cup {[kind |-> "rows",
               counts |-> [negative_revenue_count |-> r, future_timestamp_count |-> f,
                           invalid_event_types_count |-> i]] :
                 r \in 0 .. 1, f \in 0 .. 1, i \in 0 .. 1}

\* check_business_rules(): the status is success whatever the counts
check_business_rules(o) ==
    IF o.kind = "raises"
    THEN [name |-> <<"business_rules">>, status |-> "error",
          message |-> Some("exception"), found |-> {}, numpy_int |-> FALSE]
    ELSE [name |-> <<"business_rules">>, status |-> "success",
          message |-> None, found |-> Positive(o.counts), numpy_int |-> TRUE]

\* generate_quality_report: the next freshness check
CheckFreshness ==
    /\ pc = "report"
    /\ Len(report) < Len(FreshnessTables)
    /\ \E o \in FreshnessOutcomes :
           report' = Append(report,
                            check_data_freshness(FreshnessTables[Len(report) + 1], o))
    /\ UNCHANGED <<pc, alerts, check_index, issues_found, generatorvars, dagvars>>

\* generate_quality_report: the next quality check
CheckQuality ==
    /\ pc = "report"
    /\ Len(report) >= Len(FreshnessTables)
    /\ Len(report) < Len(FreshnessTables) + Len(staging_tables)
    /\ \E o \in QualityOutcomes :
           report' = Append(report,
                            check_data_quality(
                                staging_tables[Len(report) - Len(FreshnessTables) + 1], o))
    /\ UNCHANGED <<pc, alerts, check_index, issues_found, generatorvars, dagvars>>

\* generate_quality_report: the business rules, and the return to main, which
\* sets issues_found and enters its loop over the checks
CheckBusinessRules ==
    /\ pc = "report"
    /\ Len(report) = Len(FreshnessTables) + Len(staging_tables)
    /\ \E o \in BusinessOutcomes : report' = Append(report, check_business_rules(o))
    /\ issues_found' = FALSE
    /\ check_index' = 1
    /\ pc' = "alerting"
    /\ UNCHANGED <<alerts, generatorvars, dagvars>>

\* main: one iteration of `for check_name, check_result in report['checks'].items()`
AlertOnCheck ==
    /\ pc = "alerting"
    /\ check_index <= Len(report)
    /\ IF report[check_index].status \in {"warning", "error"}
       THEN /\ issues_found' = TRUE
            /\ alerts' = Append(alerts, [name |-> report[check_index].name,
                                         message |-> report[check_index].message[1],
                                         severity |-> report[check_index].status])
       ELSE UNCHANGED <<issues_found, alerts>>
    /\ check_index' = check_index + 1
    /\ UNCHANGED <<pc, report, generatorvars, dagvars>>

\* send_alert raises after it has logged the alert: SLACK_WEBHOOK_URL is set and
\* `import requests` or requests.post fails; the exception ends main
SendAlertRaises ==
    /\ pc = "alerting"
    /\ check_index <= Len(report)
    /\ report[check_index].status \in {"warning", "error"}
    /\ issues_found' = TRUE
    /\ alerts' = Append(alerts, [name |-> report[check_index].name,
                                 message |-> report[check_index].message[1],
                                 severity |-> report[check_index].status])
    /\ pc' = "monitor_failed"
    /\ UNCHANGED <<report, check_index, generatorvars, dagvars>>

\* json.dump(report, ...): the default encoder raises TypeError on a numpy.int64
JsonSerializable(checks) == \A k \in DOMAIN checks : ~checks[k].numpy_int

ReportFile == "quality_report.json"

\* main: the loop has ended and the report is written to quality_report.json
SaveReport ==
    /\ pc = "alerting"
    /\ check_index > Len(report)
    /\ JsonSerializable(report)
    /\ files' = files \cup {ReportFile}
    /\ pc' = "monitor_done"
    /\ UNCHANGED <<clock, users, events, fi, sessions, genvars, dagvars, monvars>>

\* main: the loop has ended, open() has truncated quality_report.json and
\* json.dump raises TypeError before the report is complete; the exception ends
\* main
SaveReportRaises ==
    /\ pc = "alerting"
    /\ check_index > Len(report)
    /\ ~JsonSerializable(report)
    /\ pc' = "monitor_failed"
    /\ UNCHANGED <<generatorvars, dagvars, monvars>>

InitMonitor ==
    /\ pc = "report"
    /\ clock = 0
    /\ NUM_USERS = 0
    /\ NUM_DAYS = 0
    /\ EVENTS_PER_USER_PER_DAY = <<0, 0>>
    /\ users = <<>>
    /\ start_date = 0
    /\ ui = 0
    /\ day_offset = 0
    /\ num_events = 0
    /\ event_num = 0
    /\ session_id = None
    /\ session_start = 0
    /\ events = <<>>
    /\ fi = 1
    /\ sessions = <<>>
    /\ files = {}
    /\ DagIdle
    /\ MonitorIdle

NextMonitor ==
    \/ CheckFreshness
    \/ CheckQuality
    \/ CheckBusinessRules
    \/ AlertOnCheck
    \/ SendAlertRaises
    \/ SaveReport
    \/ SaveReportRaises

SpecMonitor == InitMonitor /\ [][NextMonitor]_vars

-----------------------------------------------------------------------------
(* Properties of the data quality monitor *)

\* main of the monitor has ended normally
MonitorDone == pc = "monitor_done"

\* the loop of main over the checks has ended
AlertLoopEnded ==
    pc \in {"alerting", "monitor_done", "monitor_failed"} /\ check_index > Len(report)

\* send_alert was called for the check
Alerted(name) == \E a \in DOMAIN alerts : alerts[a].name = name

\* C20: in every run of main, send_alert is called for every check that found an
\* anomaly in the data (stale data, nulls in a critical column, duplicate rows,
\* negative revenue, future timestamps, invalid event types).
AnomaliesAreAlerted ==
    AlertLoopEnded =>
        \A k \in DOMAIN report : report[k].found # {} => Alerted(report[k].name)

\* the part of C20 that the code keeps: stale data is alerted
StaleDataIsAlerted ==
    AlertLoopEnded =>
        \A k \in DOMAIN report : "stale" \in report[k].found => Alerted(report[k].name)

\* the calls of send_alert for a check
AlertsFor(name) == {a \in DOMAIN alerts : alerts[a].name = name}

\* the check has an issue: its status is warning or error
HasIssue(check) == check.status \in {"warning", "error"}

\* send_alert was called once for each check with an issue, with its status as
\* severity and its message, and for no other check
AlertsMatchChecks ==
    \A k \in DOMAIN report :
        IF HasIssue(report[k])
        THEN /\ Cardinality(AlertsFor(report[k].name)) = 1
             /\ \A a \in AlertsFor(report[k].name) :
                    alerts[a].severity = report[k].status
        ELSE AlertsFor(report[k].name) = {}

\* C21: main of the monitor never ends by an exception; when it has ended,
\* send_alert was called exactly once for each check with status warning or error
\* (that status as severity) and never for a check with status success, the
\* all-checks-passed message was logged (issues_found is false) exactly when no
\* check has such a status, and quality_report.json has been written.
AlertsOncePerIssueAndReportSaved ==
    /\ pc # "monitor_failed"
    /\ MonitorDone =>
           /\ AlertsMatchChecks
           /\ issues_found <=> (\E k \in DOMAIN report : HasIssue(report[k]))
           /\ ReportFile \in files

\* the part of C21 that the code keeps: once the loop over the checks has ended
\* the alerts match the checks and issues_found tells whether there was an issue
AlertsMatchAfterLoop ==
    AlertLoopEnded =>
        /\ AlertsMatchChecks
        /\ issues_found <=> (\E k \in DOMAIN report : HasIssue(report[k]))

\* the freshness checks of the report
FreshnessChecks ==
    {k \in DOMAIN report : Len(report[k].name) = 2 /\ report[k].name[2] = "freshness"}

\* C22: check_data_freshness returns a status of success, warning or error:
\* warning exactly when hours_behind > max_hours, success exactly when
\* hours_behind <= max_hours (the boundary included), error otherwise (the query
\* raised or gave no rows); a table whose latest date is absent is never reported
\* as fresh.
FreshnessStatusByHoursBehind ==
    \A k \in FreshnessChecks :
        LET r == report[k]
        IN  /\ r.status \in {"success", "warning", "error"}
            /\ r.status = "warning"
                   <=> (r.hours_behind.kind = "int" /\ r.hours_behind.value > max_hours)
            /\ r.status = "success"
                   <=> (r.hours_behind.kind = "int" /\ r.hours_behind.value <= max_hours)
            /\ r.status = "error" <=> r.hours_behind = PyNone
            /\ r.latest_date # "date" => r.status # "success"

\* the part of C22 that the code keeps: the statuses of the tables that have a
\* latest date
FreshnessStatusOfDatedTables ==
    \A k \in FreshnessChecks :
        LET r == report[k]
        IN  /\ r.status \in {"success", "warning", "error"}
            /\ r.latest_date = "date" =>
                   /\ r.status = "warning" <=> r.hours_behind.value > max_hours
                   /\ r.status = "success" <=> r.hours_behind.value <= max_hours
            /\ r.status = "error" <=> r.hours_behind = PyNone

-----------------------------------------------------------------------------
(* Properties of simple_data_generator.py *)

\* the user records with the user_id of an event
OwnersOf(e) == {u \in DOMAIN users : users[u].user_id = e.user_id}

\* C23: every event of simple_data_generator.generate_sample_data has an
\* event_timestamp greater than or equal to the created_at of the user whose
\* user_id it carries.
SimpleEventNotBeforeOwnerCreation ==
    \A j \in DOMAIN events : \A u \in OwnersOf(events[j]) :
        fromisoformat(events[j].event_timestamp) >= fromisoformat(users[u].created_at)

====
